---- MODULE Spec2Model ----
(***************************************************************************)
(* Model of crates/editor/src/inlays/inlay_hints.rs: the editor's inlay    *)
(* hint policy state (LspInlayHintData) and Editor::refresh_inlay_hints,   *)
(* with the per-(buffer, row range) fetch tasks it spawns.                 *)
(*                                                                         *)
(* The editor runs on one foreground executor: every handler and every     *)
(* task completion is one atomic step.  A gpui Task stored in inlay_tasks  *)
(* is an owning handle: a task whose handle leaves the map before it ran   *)
(* is dropped and never runs.                                              *)
(***************************************************************************)
EXTENDS Integers, Sequences, FiniteSets, TLC

\* ------------------------------------------------------------------ bounds
MaxRounds == 2
MaxCalls == 3
MaxVersion == 2

\* ------------------------------------------------------------- environment
Buffers == {"A", "B"}
Excerpts == {"e1", "e2"}
ExcerptOrder == <<"e1", "e2">>
BufferOf == [e \in Excerpts |-> IF e = "e1" THEN "A" ELSE "B"]

\* Row ranges a viewport can show; a range is the pair <<start, end>>.
Ranges == {<<0, 1>>, <<2, 3>>}

Kinds == {"Type", "Parameter", "None"}
DebounceMs == {0, 50}
Settings == [enabled : BOOLEAN, kinds : SUBSET Kinds,
             edit_debounce_ms : DebounceMs, scroll_debounce_ms : DebounceMs]

\* The inputs the environment is drawn from: the settings an editor is
\* created with, the settings a change brings, the buffers that get
\* edited, the excerpts whose viewport scrolls, the excerpt sets that get
\* removed.
InitSettings == {s \in Settings : /\ s.kinds = Kinds
                                   /\ s.edit_debounce_ms = 50
                                   /\ s.scroll_debounce_ms = 50}
NewSettings == {[enabled |-> TRUE, kinds |-> {"Parameter"},
                 edit_debounce_ms |-> 50, scroll_debounce_ms |-> 50],
                [enabled |-> FALSE, kinds |-> Kinds,
                 edit_debounce_ms |-> 50, scroll_debounce_ms |-> 50]}
Edited == {"B"}
Scrolled == {"e2"}
Removed == {{"e1"}}

Hint(p, l, k) == [pos |-> p, label |-> l, kind |-> k]

\* The answers the hint provider gives to a query (server order).
Responses ==
    { <<Hint(0, "a", "Type"), Hint(1, "b", "Parameter"), Hint(1, "b", "Parameter"),
        Hint(2, "c", "None")>> }

VARIABLES
    inlay_hints,    \* Editor::inlay_hints, the LspInlayHintData
    tasks,          \* every fetch task spawned so far, by spawn order
    visible,        \* the hint inlays of the display map
    next_inlay_id,  \* Editor::next_inlay_id
    version,        \* buffer -> its edit version
    range,          \* excerpt -> the row range its viewport shows
    excerpts,       \* the excerpts present in the multi buffer
    event           \* the last handler that ran and what it did

vars == <<inlay_hints, tasks, visible, next_inlay_id, version, range,
          excerpts, event>>

\* ------------------------------------------------------- version clock
\* clock::Global::changed_since for the versions of one replica.
ChangedSince(a, b) == a > b

\* ------------------------------------------------------ LspInlayHintData
EmptyMap == [k \in {} |-> 0]
NoTasks == [b \in Buffers |-> EmptyMap]

\* crate::debounce_value: {} for None.
DebounceValue(ms) == IF ms = 0 THEN {} ELSE {ms}

New(s) ==
    [ modifiers_override  |-> FALSE,
      enabled             |-> s.enabled,
      enabled_in_settings |-> s.enabled,
      inlays_for_version  |-> {},
      inlay_tasks         |-> NoTasks,
      invalidate_debounce |-> DebounceValue(s.edit_debounce_ms),
      append_debounce     |-> DebounceValue(s.scroll_debounce_ms),
      allowed_hint_kinds  |-> s.kinds ]

\* A clear that also forgets the recorded version.
ClearForgetsVersion(d) ==
    [d EXCEPT !.inlay_tasks = NoTasks, !.inlays_for_version = {}]

\* A clear that forgets to drop the tasks.
ClearKeepsTasks(d) == d

Clear(d) == [d EXCEPT !.inlay_tasks = NoTasks]

\* A modifiers_override that hides the hints without dropping the tasks.
ModifiersOverrideKeepsTasks(d, new_override) ==
    IF d.modifiers_override = new_override
    THEN [data |-> d, ret |-> {}]
    ELSE [data |-> [d EXCEPT !.modifiers_override = new_override],
          ret |-> {d.enabled # new_override}]

\* A modifiers_override that hides or shows the hints by flipping enabled.
ModifiersOverrideFlipsEnabled(d, new_override) ==
    IF d.modifiers_override = new_override
    THEN [data |-> d, ret |-> {}]
    ELSE LET d1 == [d EXCEPT !.modifiers_override = new_override,
                             !.enabled = ~d.enabled]
         IN  IF d1.enabled
             THEN [data |-> d1, ret |-> {TRUE}]
             ELSE [data |-> Clear(d1), ret |-> {FALSE}]

\* modifiers_override: ret is {} for None, {b} for Some(b).
ModifiersOverride(d, new_override) ==
    IF d.modifiers_override = new_override
    THEN [data |-> d, ret |-> {}]
    ELSE LET d1 == [d EXCEPT !.modifiers_override = new_override]
         IN  IF (d1.enabled /\ d1.modifiers_override)
                \/ (~d1.enabled /\ ~d1.modifiers_override)
             THEN [data |-> Clear(d1), ret |-> {FALSE}]
             ELSE [data |-> d1, ret |-> {TRUE}]

\* A toggle that leaves the modifier override as it finds it.
ToggleKeepsOverride(d, en) ==
    IF d.enabled = en
    THEN [data |-> d, ret |-> FALSE]
    ELSE LET d1 == [d EXCEPT !.enabled = en]
         IN  [data |-> IF ~en THEN Clear(d1) ELSE d1, ret |-> TRUE]

Toggle(d, en) ==
    IF d.enabled = en
    THEN [data |-> d, ret |-> FALSE]
    ELSE LET d1 == [d EXCEPT !.enabled = en, !.modifiers_override = FALSE]
         IN  [data |-> IF ~en THEN Clear(d1) ELSE d1, ret |-> TRUE]

\* An update_settings that never resets the modifier override.
UpdateSettingsNoReset(d, new_hint_settings, visible_hints) ==
    LET d1 == IF new_hint_settings.enabled # d.enabled_in_settings
              THEN [d EXCEPT !.enabled = new_hint_settings.enabled,
                             !.enabled_in_settings = new_hint_settings.enabled]
              ELSE d
        d3 == [d1 EXCEPT !.allowed_hint_kinds = new_hint_settings.kinds]
    IN  CASE ~d.enabled /\ ~d1.enabled ->
                [data |-> d3, flow |-> "Break", splice |-> <<>>]
          [] d.enabled /\ d1.enabled ->
                [data |-> d1,
                 flow |-> IF new_hint_settings.kinds = d1.allowed_hint_kinds
                          THEN "Break" ELSE "Panic",
                 splice |-> <<>>]
          [] d.enabled /\ ~d1.enabled ->
                IF visible_hints = {}
                THEN [data |-> d3, flow |-> "Break", splice |-> <<>>]
                ELSE [data |-> Clear(d3), flow |-> "Break",
                      splice |-> <<[to_remove |-> {h.id : h \in visible_hints},
                                    to_insert |-> <<>>]>>]
          [] ~d.enabled /\ d1.enabled ->
                [data |-> d3, flow |-> "Continue", splice |-> <<>>]

\* An update_settings that adopts the new enabled value on every call,
\* whether or not it differs from enabled_in_settings.
UpdateSettingsAlwaysAdopts(d, new_hint_settings, visible_hints) ==
    LET old_enabled == d.enabled
        d1 == [d EXCEPT !.enabled = new_hint_settings.enabled,
                        !.enabled_in_settings = new_hint_settings.enabled,
                        !.modifiers_override = FALSE]
        d2 == [d1 EXCEPT
                 !.invalidate_debounce = DebounceValue(new_hint_settings.edit_debounce_ms),
                 !.append_debounce = DebounceValue(new_hint_settings.scroll_debounce_ms)]
        d3 == [d2 EXCEPT !.allowed_hint_kinds = new_hint_settings.kinds]
    IN  CASE ~old_enabled /\ ~d2.enabled ->
                [data |-> d3, flow |-> "Break", splice |-> <<>>]
          [] old_enabled /\ d2.enabled ->
                [data |-> d2,
                 flow |-> IF new_hint_settings.kinds = d2.allowed_hint_kinds
                          THEN "Break" ELSE "Panic",
                 splice |-> <<>>]
          [] old_enabled /\ ~d2.enabled ->
                IF visible_hints = {}
                THEN [data |-> d3, flow |-> "Break", splice |-> <<>>]
                ELSE [data |-> Clear(d3), flow |-> "Break",
                      splice |-> <<[to_remove |-> {h.id : h \in visible_hints},
                                    to_insert |-> <<>>]>>]
          [] ~old_enabled /\ d2.enabled ->
                [data |-> d3, flow |-> "Continue", splice |-> <<>>]

\* update_settings with the hints the caller found visible.  flow is the
\* ControlFlow returned ("Break" or "Continue"), splice its optional
\* InlaySplice (<<>> for None); flow "Panic" is the todo!() of the
\* enabled -> enabled arm with a changed kind filter.
UpdateSettings(d, new_hint_settings, visible_hints) ==
    LET old_enabled == d.enabled
        d1 == IF new_hint_settings.enabled # d.enabled_in_settings
              THEN [d EXCEPT !.enabled = new_hint_settings.enabled,
                             !.enabled_in_settings = new_hint_settings.enabled,
                             !.modifiers_override = FALSE]
              ELSE d
        d2 == [d1 EXCEPT
                 !.invalidate_debounce = DebounceValue(new_hint_settings.edit_debounce_ms),
                 !.append_debounce = DebounceValue(new_hint_settings.scroll_debounce_ms)]
        new_allowed_hint_kinds == new_hint_settings.kinds
        d3 == [d2 EXCEPT !.modifiers_override = FALSE,
                         !.allowed_hint_kinds = new_allowed_hint_kinds]
    IN  CASE ~old_enabled /\ ~d2.enabled ->
                [data |-> [d2 EXCEPT !.allowed_hint_kinds = new_allowed_hint_kinds],
                 flow |-> "Break", splice |-> <<>>]
          [] old_enabled /\ d2.enabled ->
                IF new_allowed_hint_kinds = d2.allowed_hint_kinds
                THEN [data |-> d2, flow |-> "Break", splice |-> <<>>]
                ELSE [data |-> d2, flow |-> "Panic", splice |-> <<>>]
          [] old_enabled /\ ~d2.enabled ->
                IF visible_hints = {}
                THEN [data |-> d3, flow |-> "Break", splice |-> <<>>]
                ELSE [data |-> Clear(d3), flow |-> "Break",
                      splice |-> <<[to_remove |-> {h.id : h \in visible_hints},
                                    to_insert |-> <<>>]>>]
          [] ~old_enabled /\ d2.enabled ->
                [data |-> d3, flow |-> "Continue", splice |-> <<>>]

\* ---------------------------------------------------- InvalidationStrategy
ShouldInvalidate(strategy) == strategy \in {"RefreshRequested", "BufferEdited"}

\* The ignore_debounce flag refresh_inlay_hints computes from the reason.
IgnoreDebounce(reason) ==
    reason \in {"SettingsChange", "Toggle", "ExcerptsRemoved", "ModifiersChanged"}

\* ------------------------------------------------------------ the tasks
\* HashMap::insert of a task under the key (buffer, row range).
InsertTask(reg, b, r, id) ==
    [reg EXCEPT ![b] = [k \in (DOMAIN reg[b]) \cup {r} |->
                            IF k = r THEN id ELSE reg[b][k]]]

\* HashMap::remove of the key (buffer, row range).
RemoveTask(reg, b, r) ==
    [reg EXCEPT ![b] = [k \in (DOMAIN reg[b]) \ {r} |-> reg[b][k]]]

\* The tasks whose handle the map holds.
Registered(reg) == UNION {{reg[b][k] : k \in DOMAIN reg[b]} : b \in Buffers}

\* Tasks that were detached: leaving the map does not cancel them.
DetachedTasks(ts, reg, how) == ts

\* Tasks that a clear() of the map leaves running: only a task replaced
\* under its key is cancelled.
DropOnlySuperseded(ts, reg, how) ==
    [i \in DOMAIN ts |->
        IF ts[i].state = "pending" /\ i \notin Registered(reg) /\ how = "superseded"
        THEN [ts[i] EXCEPT !.state = how]
        ELSE ts[i]]

\* A Task handle that left the map before its task ran is dropped: the
\* task is cancelled and never runs.  how records what dropped it.
DropUnregistered(ts, reg, how) ==
    [i \in DOMAIN ts |->
        IF ts[i].state = "pending" /\ i \notin Registered(reg)
        THEN [ts[i] EXCEPT !.state = how]
        ELSE ts[i]]

\* MultiBuffer::visible_excerpts, in iteration order.
VisibleExcerpts == SelectSeq(ExcerptOrder, LAMBDA e : e \in excerpts)

\* What a spawned task captures: rng and ver are the viewport ranges and
\* the buffer versions as visible_excerpts reports them.  reason and round
\* record the refresh that spawned the task, answer the provider's answer
\* once the task has run on it.
NewTask(e, reason, strategy, round, rng, ver) ==
    [ reason   |-> reason,
      round    |-> round,
      excerpt  |-> e,
      buffer   |-> BufferOf[e],
      range    |-> rng[e],
      version  |-> ver[BufferOf[e]],
      strategy |-> strategy,
      state    |-> "pending",
      answer   |-> <<>> ]

\* The loop of refresh_inlay_hints over the visible excerpts: one provider
\* query and one spawned task per excerpt, registered under its key.
RECURSIVE FetchVisible(_, _, _, _, _, _, _, _)
FetchVisible(es, reason, strategy, round, reg, ts, rng, ver) ==
    IF es = <<>>
    THEN [inlay_tasks |-> reg, tasks |-> ts]
    ELSE LET t == NewTask(Head(es), reason, strategy, round, rng, ver)
         IN  FetchVisible(Tail(es), reason, strategy, round,
                          InsertTask(reg, t.buffer, t.range, Len(ts) + 1),
                          Append(ts, t), rng, ver)

\* The same loop with a provider that returns None for the buffers in
\* declined: the let-else returns from refresh_inlay_hints at the first
\* such excerpt, and the excerpts after it are not reached.
RECURSIVE FetchUntilDeclined(_, _, _, _, _, _, _, _, _)
FetchUntilDeclined(es, declined, reason, strategy, round, reg, ts, rng, ver) ==
    IF es = <<>> \/ BufferOf[Head(es)] \in declined
    THEN [inlay_tasks |-> reg, tasks |-> ts]
    ELSE LET t == NewTask(Head(es), reason, strategy, round, rng, ver)
         IN  FetchUntilDeclined(Tail(es), declined, reason, strategy, round,
                                InsertTask(reg, t.buffer, t.range, Len(ts) + 1),
                                Append(ts, t), rng, ver)

\* The number of the next refresh that spawns tasks.
NextRound == IF tasks = <<>> THEN 1 ELSE tasks[Len(tasks)].round + 1

\* ------------------------------------------------------ reconciliation
\* A dedup that keeps only the first of all equal elements.
DedupAll(s) ==
    LET first == SelectSeq([k \in 1..Len(s) |-> k],
                           LAMBDA k : \A j \in 1..(k - 1) : s[j] # s[k])
    IN  [j \in 1..Len(first) |-> s[first[j]]]

\* itertools dedup: consecutive equal elements collapse into one.
RECURSIVE Dedup(_)
Dedup(s) ==
    IF Len(s) <= 1 THEN s
    ELSE IF s[1] = s[2] THEN Dedup(Tail(s))
    ELSE <<s[1]>> \o Dedup(Tail(s))

\* A range filter that leaves out the two ends of the range.
InRangeExclusive(h, r) == h.pos > r[1] /\ h.pos < r[2]

\* position.cmp(range.start).is_ge() && position.cmp(range.end).is_le()
InRange(h, r) == h.pos >= r[1] /\ h.pos <= r[2]

\* MultiBufferSnapshot::anchor_in_excerpt: {} for None.
AnchorInExcerpt(e, pos) == IF e \in excerpts THEN {pos} ELSE {}

\* A filter_map that takes an inlay id for every record it looks at, kept
\* or dropped.
RECURSIVE MakeInlaysCountingAll(_, _, _, _)
MakeInlaysCountingAll(hs, i, t, id) ==
    IF hs = <<>> THEN <<>>
    ELSE LET h == Head(hs)
         IN  IF InRange(h, t.range) /\ AnchorInExcerpt(t.excerpt, h.pos) # {}
             THEN <<[id |-> id, excerpt |-> t.excerpt, pos |-> h.pos,
                     label |-> h.label, kind |-> h.kind, task |-> i]>>
                  \o MakeInlaysCountingAll(Tail(hs), i, t, id + 1)
             ELSE MakeInlaysCountingAll(Tail(hs), i, t, id + 1)

\* The filter_map of the reconciliation: the hints in the queried range
\* that project into the excerpt, each with the next inlay id.  The field
\* task records the task that inserted the inlay.
RECURSIVE MakeInlays(_, _, _, _)
MakeInlays(hs, i, t, id) ==
    IF hs = <<>> THEN <<>>
    ELSE LET h == Head(hs)
         IN  IF InRange(h, t.range) /\ AnchorInExcerpt(t.excerpt, h.pos) # {}
             THEN <<[id |-> id, excerpt |-> t.excerpt, pos |-> h.pos,
                     label |-> h.label, kind |-> h.kind, task |-> i]>>
                  \o MakeInlays(Tail(hs), i, t, id + 1)
             ELSE MakeInlays(Tail(hs), i, t, id)

HintsToInsert(resp, i, t, id) == MakeInlays(Dedup(resp), i, t, id)

SeqToSet(s) == {s[k] : k \in DOMAIN s}

\* Editor::visible_inlay_hints mapped to the inlay ids.
VisibleIds == {h.id : h \in visible}

\* A splice that inserts and never removes.
SpliceInsertsOnly(vis, to_remove, to_insert) == vis \cup SeqToSet(to_insert)

\* Editor::splice_inlays on the hint inlays of the display map.
SpliceInlays(vis, to_remove, to_insert) ==
    {h \in vis : h.id \notin to_remove} \cup SeqToSet(to_insert)

Splice(to_remove, to_insert) == [to_remove |-> to_remove, to_insert |-> to_insert]

\* A race guard that lets every response through.
GuardAlwaysPasses(d, t) == TRUE

\* A race guard with the comparison turned round: it passes the responses
\* that are not newer than the recorded version.
GuardPassesNotNewer(d, t) ==
    \A v \in d.inlays_for_version : ~ChangedSince(t.version, v)

\* The race guard of a successful response.  An optional version is held
\* as {} or {v}, so is_none_or is a quantifier over it.
GuardPasses(d, t) ==
    \A v \in d.inlays_for_version : ~ChangedSince(v, t.version)

\* A removal decision that looks at the versions only.
RemovesOnNewerVersion(d, t) ==
    \A v \in d.inlays_for_version : ChangedSince(t.version, v)

\* A removal decision that looks at the strategy only.
RemovesOnInvalidate(d, t) == ShouldInvalidate(t.strategy)

\* Whether the reconciliation removes the visible hints.
RemovesVisible(d, t) ==
    ShouldInvalidate(t.strategy)
    \/ \A v \in d.inlays_for_version : ChangedSince(t.version, v)

\* What the last handler was called with and what it did: the refresh
\* reason with its argument, the branch taken, the task that ran and the
\* splices handed to splice_inlays.
Event(reason, input, outcome, task, splice) ==
    [reason |-> reason, input |-> input, outcome |-> outcome, task |-> task,
     splice |-> splice]

NoInput == [enabled |-> FALSE, kinds |-> {}, edit_debounce_ms |-> 0,
            scroll_debounce_ms |-> 0]
Flag(en) == [NoInput EXCEPT !.enabled = en]

\* --------------------------------------------------------------- Init
Init ==
    /\ \E s \in InitSettings : inlay_hints = New(s)
    /\ tasks = <<>>
    /\ visible = {}
    /\ next_inlay_id = 0
    /\ version = [b \in Buffers |-> 0]
    /\ range = [e \in Excerpts |-> <<0, 1>>]
    /\ excerpts = Excerpts
    /\ event = Event("new", NoInput, "none", 0, <<>>)

\* ------------------------------------------------ refresh_inlay_hints
\* The tail of refresh_inlay_hints: the fetch loop, reached with a strategy.
Fetch(reason, input, d, strategy, rng, ver) ==
    LET r == FetchVisible(VisibleExcerpts, reason, strategy, NextRound,
                          d.inlay_tasks, tasks, rng, ver)
    IN  /\ VisibleExcerpts # <<>> => NextRound <= MaxRounds
        /\ Len(tasks) + Len(VisibleExcerpts) <= MaxCalls
        /\ inlay_hints' = [d EXCEPT !.inlay_tasks = r.inlay_tasks]
        /\ tasks' = DropUnregistered(r.tasks, r.inlay_tasks, "superseded")
        /\ event' = Event(reason, input, "fetch", 0, <<>>)
        /\ UNCHANGED <<visible, next_inlay_id>>

\* The return after splicing all visible hints away.
RemoveAllVisible(reason, input, d) ==
    /\ inlay_hints' = d
    /\ tasks' = DropUnregistered(tasks, d.inlay_tasks, "cleared")
    /\ visible' = SpliceInlays(visible, VisibleIds, <<>>)
    /\ event' = Event(reason, input, "removed", 0, <<Splice(VisibleIds, <<>>)>>)
    /\ UNCHANGED next_inlay_id

\* A return that does nothing.
Return(reason, input) ==
    /\ event' = Event(reason, input, "return", 0, <<>>)
    /\ UNCHANGED <<inlay_hints, tasks, visible, next_inlay_id>>

RefreshModifiersChanged(en) ==
    LET r == ModifiersOverride(inlay_hints, en)
    IN  /\ IF r.ret = {} THEN Return("ModifiersChanged", Flag(en))
           ELSE IF r.ret = {TRUE}
                THEN Fetch("ModifiersChanged", Flag(en), r.data,
                           "RefreshRequested", range, version)
                ELSE RemoveAllVisible("ModifiersChanged", Flag(en), r.data)
        /\ UNCHANGED <<version, range, excerpts>>

RefreshToggle(en) ==
    LET r == Toggle(inlay_hints, en)
    IN  /\ IF r.ret
           THEN IF en
                THEN Fetch("Toggle", Flag(en), r.data, "RefreshRequested",
                           range, version)
                ELSE RemoveAllVisible("Toggle", Flag(en), r.data)
           ELSE Return("Toggle", Flag(en))
        /\ UNCHANGED <<version, range, excerpts>>

\* A SettingsChange refresh that fetches when the new settings enable the
\* hints while they are disabled.
SettingsChangeEnables(new_settings) ==
    /\ IF new_settings.enabled /\ ~inlay_hints.enabled
       THEN Fetch("SettingsChange", new_settings,
                  [inlay_hints EXCEPT !.enabled = TRUE], "RefreshRequested",
                  range, version)
       ELSE Return("SettingsChange", new_settings)
    /\ UNCHANGED <<version, range, excerpts>>

\* A SettingsChange refresh that starts a fetch round.
SettingsChangeRefetches(new_settings) ==
    /\ Fetch("SettingsChange", new_settings, inlay_hints, "RefreshRequested",
             range, version)
    /\ UNCHANGED <<version, range, excerpts>>

\* The refresh for new settings returns at once.
RefreshSettingsChange(new_settings) ==
    /\ Return("SettingsChange", new_settings)
    /\ UNCHANGED <<version, range, excerpts>>

\* An ExcerptsRemoved refresh that resets the whole hint state.
ExcerptsRemovedClearsAll(excerpts_removed) ==
    /\ excerpts_removed # {}
    /\ excerpts_removed \subseteq excerpts
    /\ excerpts' = excerpts \ excerpts_removed
    /\ RemoveAllVisible("ExcerptsRemoved", NoInput, Clear(inlay_hints))
    /\ UNCHANGED <<version, range>>

\* The multi buffer dropped the excerpts; the refresh returns.
RefreshExcerptsRemoved(excerpts_removed) ==
    /\ excerpts_removed # {}
    /\ excerpts_removed \subseteq excerpts
    /\ excerpts' = excerpts \ excerpts_removed
    /\ Return("ExcerptsRemoved", NoInput)
    /\ UNCHANGED <<version, range>>

\* The viewport of excerpt e came to show row range r.
RefreshNewLinesShown(e, r) ==
    /\ e \in excerpts
    /\ range' = [range EXCEPT ![e] = r]
    /\ Fetch("NewLinesShown", NoInput, inlay_hints, "None", range', version)
    /\ UNCHANGED <<version, excerpts>>

\* Buffer b was edited.
RefreshBufferEdited(b) ==
    /\ b \in {BufferOf[e] : e \in excerpts}
    /\ version[b] < MaxVersion
    /\ version' = [version EXCEPT ![b] = version[b] + 1]
    /\ Fetch("BufferEdited", NoInput, inlay_hints, "BufferEdited", range, version')
    /\ UNCHANGED <<range, excerpts>>

\* The language server asked for a refresh.
RefreshRequested ==
    /\ Fetch("RefreshRequested", NoInput, inlay_hints, "RefreshRequested",
             range, version)
    /\ UNCHANGED <<version, range, excerpts>>

\* ------------------------------------------------- the spawned task
\* The hints the reconciliation of task i inserts for the answer resp.
ToInsert(i, resp) == HintsToInsert(resp, i, tasks[i], next_inlay_id)

\* The task's excerpt left the multi buffer: the update returns early.
CompleteOrphaned(i) ==
    /\ tasks' = [tasks EXCEPT ![i].state = "orphaned"]
    /\ event' = Event("Completion", NoInput, "orphaned", i, <<>>)
    /\ UNCHANGED <<inlay_hints, visible, next_inlay_id>>

\* Task i runs on the provider's answer Ok(resp).
CompleteOk(i, resp) ==
    /\ i \in DOMAIN tasks
    /\ tasks[i].state = "pending"
    /\ LET t == tasks[i]
           reg == RemoveTask(inlay_hints.inlay_tasks, t.buffer, t.range)
       IN  IF t.excerpt \notin excerpts
           THEN CompleteOrphaned(i)
           ELSE IF GuardPasses(inlay_hints, t)
           THEN LET to_remove == IF RemovesVisible(inlay_hints, t)
                                 THEN VisibleIds ELSE {}
                    to_insert == ToInsert(i, resp)
                IN  /\ inlay_hints' = [inlay_hints EXCEPT
                                          !.inlays_for_version = {t.version},
                                          !.inlay_tasks = reg]
                    /\ tasks' = [tasks EXCEPT ![i].state = "applied",
                                              ![i].answer = resp]
                    /\ visible' = SpliceInlays(visible, to_remove, to_insert)
                    /\ next_inlay_id' = next_inlay_id + Len(to_insert)
                    /\ event' = Event("Completion", NoInput, "applied", i,
                                      <<Splice(to_remove, to_insert)>>)
           ELSE /\ inlay_hints' = [inlay_hints EXCEPT !.inlay_tasks = reg]
                /\ tasks' = [tasks EXCEPT ![i].state = "discarded",
                                          ![i].answer = resp]
                /\ event' = Event("Completion", NoInput, "discarded", i, <<>>)
                /\ UNCHANGED <<visible, next_inlay_id>>
    /\ UNCHANGED <<version, range, excerpts>>

\* Task i runs on the provider's answer Err.
CompleteErr(i) ==
    /\ i \in DOMAIN tasks
    /\ tasks[i].state = "pending"
    /\ LET t == tasks[i]
       IN  IF t.excerpt \notin excerpts
           THEN CompleteOrphaned(i)
           ELSE /\ inlay_hints' = [inlay_hints EXCEPT !.inlay_tasks =
                                      RemoveTask(@, t.buffer, t.range)]
                /\ tasks' = [tasks EXCEPT ![i].state = "failed"]
                /\ event' = Event("Completion", NoInput, "failed", i, <<>>)
                /\ UNCHANGED <<visible, next_inlay_id>>
    /\ UNCHANGED <<version, range, excerpts>>

Next ==
    \/ \E en \in BOOLEAN : RefreshModifiersChanged(en)
    \/ \E en \in BOOLEAN : RefreshToggle(en)
    \/ \E s \in NewSettings : RefreshSettingsChange(s)
    \/ \E ids \in Removed : RefreshExcerptsRemoved(ids)
    \/ \E e \in Scrolled, r \in Ranges : RefreshNewLinesShown(e, r)
    \/ \E b \in Edited : RefreshBufferEdited(b)
    \/ RefreshRequested
    \/ \E i \in DOMAIN tasks, resp \in Responses : CompleteOk(i, resp)
    \/ \E i \in DOMAIN tasks : CompleteErr(i)

Spec == Init /\ [][Next]_vars

\* ------------------------------------------------ the provider answers
\* A task runs when the provider's answer arrives.  The provider answers
\* every call it received and the foreground executor runs every task that
\* is ready, so a run that stays possible is eventually taken.
Completes ==
    \E i \in DOMAIN tasks :
        (\E resp \in Responses : CompleteOk(i, resp)) \/ CompleteErr(i)

SpecAnswered == Spec /\ WF_vars(Completes)

\* ------------------------------------------- one refresh and the policy
\* The editor after construction, an optional toggle, an optional modifier
\* override and an optional RefreshRequested refresh whose fetches are
\* outstanding; from there update_settings is called and the provider
\* answers.
KindFilters == {Kinds, {"Parameter"}}
StartSettings == {s \in Settings : /\ s.kinds \in KindFilters
                                    /\ s.edit_debounce_ms = 50
                                    /\ s.scroll_debounce_ms = 50}
UpdateInputs == StartSettings

\* Five records at one position, the last two identical.
SamePlace ==
    << Hint(1, "move", "None"), Hint(1, "(", "None"), Hint(1, "&x", "None"),
       Hint(1, ")", "None"), Hint(1, ")", "None") >>
\* Two equal records with a different record between them.
Separated ==
    << Hint(0, "a", "Type"), Hint(1, "b", "Parameter"), Hint(0, "a", "Type") >>
Answers == Responses \cup {SamePlace, Separated}

InitOneRefresh ==
    \E s \in StartSettings, toggled \in BOOLEAN, override \in BOOLEAN,
       fetched \in BOOLEAN :
        LET d0 == New(s)
            d1 == IF toggled THEN Toggle(d0, ~d0.enabled).data ELSE d0
            d2 == ModifiersOverride(d1, override).data
            v0 == [b \in Buffers |-> 0]
            r0 == [e \in Excerpts |-> <<0, 1>>]
            f  == IF fetched
                  THEN FetchVisible(ExcerptOrder, "RefreshRequested",
                                    "RefreshRequested", 1, d2.inlay_tasks, <<>>,
                                    r0, v0)
                  ELSE [inlay_tasks |-> d2.inlay_tasks, tasks |-> <<>>]
        IN  /\ inlay_hints = [d2 EXCEPT !.inlay_tasks = f.inlay_tasks]
            /\ tasks = f.tasks
            /\ visible = {}
            /\ next_inlay_id = 0
            /\ version = v0
            /\ range = r0
            /\ excerpts = Excerpts
            /\ event = IF fetched
                       THEN Event("RefreshRequested", NoInput, "fetch", 0, <<>>)
                       ELSE Event("new", NoInput, "none", 0, <<>>)

\* A panic aborts the program: nothing runs after it.
Running == event.outcome # "panic"

\* A caller hands update_settings the new settings and the visible hints.
SettingsUpdated(new_settings) ==
    LET r == UpdateSettings(inlay_hints, new_settings, visible)
    IN  /\ Running
        /\ inlay_hints' = r.data
        /\ tasks' = DropUnregistered(tasks, r.data.inlay_tasks, "cleared")
        /\ event' = Event("update_settings", new_settings,
                          IF r.flow = "Panic" THEN "panic"
                          ELSE IF r.flow = "Continue" THEN "continue" ELSE "break",
                          0, r.splice)
        /\ UNCHANGED <<visible, next_inlay_id, version, range, excerpts>>

Answered(i, resp) == Running /\ CompleteOk(i, resp)
Failed(i) == Running /\ CompleteErr(i)

NextOneRefresh ==
    \/ \E s \in UpdateInputs : SettingsUpdated(s)
    \/ \E i \in DOMAIN tasks, resp \in Answers : Answered(i, resp)
    \/ \E i \in DOMAIN tasks : Failed(i)

SpecOneRefresh == InitOneRefresh /\ [][NextOneRefresh]_vars

\* ------------------------------------------------ the policy operations
\* From the same start, toggle and modifiers_override are called through
\* their refresh reasons next to update_settings.
Toggled(en) == Running /\ RefreshToggle(en)
ModifiersChanged(en) == Running /\ RefreshModifiersChanged(en)

NextPolicy ==
    \/ \E s \in UpdateInputs : SettingsUpdated(s)
    \/ \E en \in BOOLEAN : Toggled(en)
    \/ \E en \in BOOLEAN : ModifiersChanged(en)
    \/ \E i \in DOMAIN tasks, resp \in Answers : Answered(i, resp)
    \/ \E i \in DOMAIN tasks : Failed(i)

SpecPolicy == InitOneRefresh /\ [][NextPolicy]_vars

\* ------------------------------------------- a provider that declines
\* The provider's inlay_hints returns an Option: it may return None for a
\* buffer.  declined is the set of buffers it declines in one refresh; the
\* event records it as the refresh's input.
Declines == SUBSET Buffers
Declined(bs) == [declined |-> bs]

FetchServed(reason, d, strategy, rng, ver, declined) ==
    LET r == FetchUntilDeclined(VisibleExcerpts, declined, reason, strategy,
                                NextRound, d.inlay_tasks, tasks, rng, ver)
    IN  /\ Len(r.tasks) > Len(tasks) => NextRound <= MaxRounds
        /\ Len(r.tasks) <= MaxCalls
        /\ inlay_hints' = [d EXCEPT !.inlay_tasks = r.inlay_tasks]
        /\ tasks' = DropUnregistered(r.tasks, r.inlay_tasks, "superseded")
        /\ event' = Event(reason, Declined(declined), "fetch", 0, <<>>)
        /\ UNCHANGED <<visible, next_inlay_id>>

RefreshRequestedServed(declined) ==
    /\ FetchServed("RefreshRequested", inlay_hints, "RefreshRequested", range,
                   version, declined)
    /\ UNCHANGED <<version, range, excerpts>>

RefreshNewLinesShownServed(e, r, declined) ==
    /\ e \in excerpts
    /\ range' = [range EXCEPT ![e] = r]
    /\ FetchServed("NewLinesShown", inlay_hints, "None", range', version, declined)
    /\ UNCHANGED <<version, excerpts>>

NextServed ==
    \/ \E bs \in Declines : RefreshRequestedServed(bs)
    \/ \E e \in Excerpts, r \in Ranges, bs \in Declines :
          RefreshNewLinesShownServed(e, r, bs)
    \/ \E i \in DOMAIN tasks, resp \in Responses : CompleteOk(i, resp)
    \/ \E i \in DOMAIN tasks : CompleteErr(i)

SpecServed == Init /\ [][NextServed]_vars

\* ------------------------------------------------------ scrolling only
\* An editor with hints enabled, opened on one excerpt or on both, over
\* buffers that may carry edits made before the editor was created; from
\* there only the viewports move and the provider answers.
OpenedOn == {Excerpts, {"e2"}}
EarlierEdits == {[b \in Buffers |-> 0],
                 [b \in Buffers |-> IF b = "B" THEN 1 ELSE 0]}

InitScroll ==
    /\ \E s \in InitSettings : s.enabled /\ inlay_hints = New(s)
    /\ tasks = <<>>
    /\ visible = {}
    /\ next_inlay_id = 0
    /\ version \in EarlierEdits
    /\ range = [e \in Excerpts |-> <<0, 1>>]
    /\ excerpts \in OpenedOn
    /\ event = Event("new", NoInput, "none", 0, <<>>)

NextScroll ==
    \/ \E e \in Excerpts, r \in Ranges : RefreshNewLinesShown(e, r)
    \/ \E i \in DOMAIN tasks, resp \in Responses : CompleteOk(i, resp)
    \/ \E i \in DOMAIN tasks : CompleteErr(i)

SpecScroll == InitScroll /\ [][NextScroll]_vars

\* ================================================================ claims
SameKey(a, b) == a.buffer = b.buffer /\ a.range = b.range

\* The tasks of the refresh round r, and the last round that spawned tasks.
RoundTasks(r) == {i \in DOMAIN tasks : tasks[i].round = r}
LastRound == IF tasks = <<>> THEN 0 ELSE tasks[Len(tasks)].round

\* The raw hints of the answer task i got that lie in its queried range,
\* and the raw hints of the visible inlays task i inserted.
InRangeHintsIn(ts, i) == {h \in SeqToSet(ts[i].answer) : InRange(h, ts[i].range)}
VisibleOfIn(vis, i) == {Hint(h.pos, h.label, h.kind) : h \in {v \in vis : v.task = i}}
InRangeHints(i) == InRangeHintsIn(tasks, i)
VisibleOf(i) == VisibleOfIn(visible, i)

\* A task was spawned with the answer future of a provider query, so
\* every task stands for one query the provider received.
ProviderQueries == DOMAIN tasks

\* The tasks spawned in this step.
Spawned == (DOMAIN tasks') \ (DOMAIN tasks)

\* C1: of the fetches issued for one key before any of them completed,
\* exactly the last-issued one is applied: a step makes hints visible only
\* as the reconciliation of a task that was pending, no task is applied
\* once a later fetch for its key was issued, and the last-issued task,
\* run on a successful answer while no response for a newer version of its
\* own document was reconciled, is applied with its in-range hints visible.
C1_ExactlyLastApplied ==
    [][ /\ \A h \in visible' \ visible :
              /\ h.task \in DOMAIN tasks
              /\ tasks[h.task].state = "pending"
              /\ tasks'[h.task].state = "applied"
        /\ \A i \in DOMAIN tasks :
              (tasks[i].state # "applied" /\ tasks'[i].state = "applied")
              => /\ tasks[i].state = "pending"
                 /\ \A j \in DOMAIN tasks : j > i => ~SameKey(tasks[i], tasks[j])
        /\ \A i \in DOMAIN tasks :
              ( /\ tasks[i].state = "pending"
                /\ tasks'[i].state \in {"applied", "discarded"}
                /\ \A j \in DOMAIN tasks :
                      ~ /\ tasks[j].buffer = tasks[i].buffer
                        /\ tasks[j].state = "applied"
                        /\ tasks[j].version > tasks[i].version )
              => /\ tasks'[i].state = "applied"
                 /\ InRangeHintsIn(tasks', i) \subseteq VisibleOfIn(visible', i)
      ]_vars

\* C2: at most one task is in flight per (buffer, row range) key: every
\* pending task is the one the registry holds under its own key, every
\* registry entry holds a task of that key, and a task that was replaced
\* was replaced by a later task of the same key.
C2_OneTaskPerKey ==
    /\ \A i \in DOMAIN tasks :
          tasks[i].state = "pending"
          => /\ tasks[i].range \in DOMAIN inlay_hints.inlay_tasks[tasks[i].buffer]
             /\ inlay_hints.inlay_tasks[tasks[i].buffer][tasks[i].range] = i
    /\ \A i, j \in DOMAIN tasks :
          (tasks[i].state = "pending" /\ tasks[j].state = "pending"
           /\ SameKey(tasks[i], tasks[j])) => i = j
    /\ \A b \in Buffers : \A k \in DOMAIN inlay_hints.inlay_tasks[b] :
          LET i == inlay_hints.inlay_tasks[b][k]
          IN  i \in DOMAIN tasks /\ tasks[i].buffer = b /\ tasks[i].range = k
    /\ \A i \in DOMAIN tasks :
          tasks[i].state = "superseded"
          => \E j \in DOMAIN tasks : j > i /\ SameKey(tasks[i], tasks[j])

C2_Witness ==
    \E i, j \in DOMAIN tasks :
        /\ i < j
        /\ SameKey(tasks[i], tasks[j])
        /\ tasks[i].state = "superseded"
        /\ tasks[j].state = "pending"
        /\ inlay_hints.inlay_tasks[tasks[j].buffer][tasks[j].range] = j

\* C3: with an edit debounce configured, a BufferEdited fetch that the
\* next BufferEdited trigger for its key superseded never reached the
\* provider, and once the last edit's fetches have all been reconciled the
\* visible hints are exactly those of the last edit's responses.
C3_DebounceCoalesces ==
    inlay_hints.invalidate_debounce # {}
    => /\ \A i \in ProviderQueries, j \in DOMAIN tasks :
             ~ /\ i < j
               /\ SameKey(tasks[i], tasks[j])
               /\ tasks[i].reason = "BufferEdited"
               /\ tasks[j].reason = "BufferEdited"
               /\ tasks[i].state = "superseded"
               /\ \A k \in DOMAIN tasks :
                     (i < k /\ k < j) => ~SameKey(tasks[i], tasks[k])
       /\ ( /\ event.reason = "Completion"
            /\ LastRound > 0
            /\ \A i \in RoundTasks(LastRound) :
                  tasks[i].reason = "BufferEdited" /\ tasks[i].state = "applied" )
          => \A h \in visible :
                /\ tasks[h.task].round = LastRound
                /\ Hint(h.pos, h.label, h.kind) \in InRangeHints(h.task)

\* C4: when the fetches of the last buffer edit have all completed
\* successfully, the in-range hints of every region's response are
\* visible.
C4_AllRegionsVisible ==
    ( /\ event.reason = "Completion"
      /\ LastRound > 0
      /\ event.task \in RoundTasks(LastRound)
      /\ \A i \in RoundTasks(LastRound) :
            tasks[i].reason = "BufferEdited" /\ tasks[i].state = "applied" )
    => \A i \in RoundTasks(LastRound) : InRangeHints(i) \subseteq VisibleOf(i)

\* C5: a successful response based on a version the recorded version has
\* advanced past is discarded without a splice or a change of the hints,
\* the recorded version or the inlay ids; and a reconciliation never
\* removes hints that were reconciled for a newer version than its own.
C5_StaleResponseDiscarded ==
    [][ \A i \in DOMAIN tasks :
          /\ ( /\ tasks[i].state = "pending"
               /\ tasks'[i].state \in {"applied", "discarded"}
               /\ \E v \in inlay_hints.inlays_for_version :
                     ChangedSince(v, tasks[i].version) )
             => /\ tasks'[i].state = "discarded"
                /\ visible' = visible
                /\ inlay_hints'.inlays_for_version = inlay_hints.inlays_for_version
                /\ next_inlay_id' = next_inlay_id
                /\ event'.splice = <<>>
          /\ ( tasks[i].state = "pending" /\ tasks'[i].state = "applied" )
             => \A h \in visible :
                   tasks[h.task].version > tasks[i].version => h \in visible'
      ]_vars

C5_Witness ==
    /\ event.reason = "Completion"
    /\ event.outcome = "discarded"
    /\ \E h \in visible : tasks[h.task].version > tasks[event.task].version

\* C6: the race guard of a document looks only at that document's own
\* reconciliations: a successful response is discarded only when a
\* response for a newer version of the same document was reconciled.
C6_GuardPerDocument ==
    ( event.reason = "Completion" /\ event.outcome = "discarded" )
    => \E j \in DOMAIN tasks :
          /\ tasks[j].buffer = tasks[event.task].buffer
          /\ tasks[j].state = "applied"
          /\ tasks[j].version > tasks[event.task].version

\* C7: Toggle(false) while enabled leaves no registered task and no
\* visible hint, its one splice removes exactly the visible hint ids and
\* inserts nothing, no task issued before it is left to run, and only a
\* task that is still to run can make hints visible.
C7_DisableClears ==
    [][ /\ ( event'.reason = "Toggle" /\ event'.outcome = "removed" )
           => /\ inlay_hints.enabled /\ ~inlay_hints'.enabled
              /\ Registered(inlay_hints'.inlay_tasks) = {}
              /\ visible' = {}
              /\ event'.splice = <<Splice(VisibleIds, <<>>)>>
              /\ \A i \in DOMAIN tasks' : tasks'[i].state # "pending"
        /\ \A h \in visible' \ visible :
              h.task \in DOMAIN tasks /\ tasks[h.task].state = "pending"
      ]_vars

C7_Witness ==
    /\ event.reason = "Toggle"
    /\ event.outcome = "removed"
    /\ event.splice[1].to_remove # {}
    /\ \E i \in DOMAIN tasks : tasks[i].state = "cleared"

\* C8: Toggle(true) while disabled spawns a RefreshRequested fetch for
\* every visible region, and once the provider has answered all of these
\* fetches successfully, for regions still in view whose documents were
\* not edited since, the in-range hints of every answer are visible.
C8_ReenableRepopulates ==
    /\ ( event.reason = "Toggle" /\ event.input.enabled /\ event.outcome = "fetch" )
       => \A e \in excerpts : \E i \in RoundTasks(LastRound) :
             /\ tasks[i].excerpt = e
             /\ tasks[i].reason = "Toggle"
             /\ tasks[i].strategy = "RefreshRequested"
             /\ tasks[i].range = range[e]
             /\ tasks[i].state = "pending"
    /\ ( /\ event.reason = "Completion"
         /\ LastRound > 0
         /\ \A i \in RoundTasks(LastRound) :
               /\ tasks[i].reason = "Toggle"
               /\ tasks[i].state \in {"applied", "discarded"}
               /\ tasks[i].excerpt \in excerpts
               /\ version[tasks[i].buffer] = tasks[i].version )
       => \A i \in RoundTasks(LastRound) :
             /\ InRangeHints(i) # {}
             /\ InRangeHints(i) \subseteq VisibleOf(i)

\* C9: a SettingsChange refresh that enables the feature while it is
\* disabled enables it and spawns a fetch for every visible region.
C9_SettingsEnableFetches ==
    [][ ( /\ event'.reason = "SettingsChange"
          /\ event'.input.enabled
          /\ ~inlay_hints.enabled )
        => /\ inlay_hints'.enabled
           /\ \A e \in excerpts : \E i \in Spawned : tasks'[i].excerpt = e
      ]_vars

\* C10: while the feature is disabled and no modifier override is active,
\* a RefreshRequested, BufferEdited or NewLinesShown refresh spawns no
\* fetch and leaves the registry and the visible hints empty.
C10_DisabledNeverFetches ==
    [][ ( /\ ~inlay_hints.enabled
          /\ ~inlay_hints.modifiers_override
          /\ event'.reason \in {"RefreshRequested", "BufferEdited", "NewLinesShown"} )
        => /\ Spawned = {}
           /\ Registered(inlay_hints'.inlay_tasks) = {}
           /\ visible' = {}
      ]_vars

\* C11: a SettingsChange refresh that changes only the allowed kinds while
\* the feature is and stays enabled spawns no fetch and leaves the tasks,
\* the registry and the recorded version as they were.
C11_KindFilterDisplayOnly ==
    [][ ( /\ event'.reason = "SettingsChange"
          /\ inlay_hints.enabled
          /\ event'.input.enabled
          /\ event'.input.kinds # inlay_hints.allowed_hint_kinds )
        => /\ Spawned = {}
           /\ tasks' = tasks
           /\ inlay_hints'.inlay_tasks = inlay_hints.inlay_tasks
           /\ inlay_hints'.inlays_for_version = inlay_hints.inlays_for_version
           /\ inlay_hints'.enabled
      ]_vars

C11_Witness ==
    /\ event.reason = "SettingsChange"
    /\ event.input.enabled
    /\ inlay_hints.enabled
    /\ event.input.kinds # inlay_hints.allowed_hint_kinds
    /\ Registered(inlay_hints.inlay_tasks) # {}
    /\ inlay_hints.inlays_for_version # {}
    /\ visible # {}

\* C12: every visible hint has a kind the current allowed_hint_kinds
\* admits: no reconciliation makes a hint of a filtered-out kind visible,
\* and after the kind filter changed only hints of allowed kinds are left.
C12_VisibleKindsAllowed ==
    Running => \A h \in visible : h.kind \in inlay_hints.allowed_hint_kinds

\* C13: update_settings called while enabled with settings that keep the
\* feature enabled and carry another kind filter returns Break(Some(diff))
\* whose removals are the visible hints the new filter excludes, adopts
\* the new filter and spawns no fetch.
C13_FilterChangeDiff ==
    [][ ( /\ event'.reason = "update_settings"
          /\ inlay_hints.enabled
          /\ event'.input.enabled
          /\ event'.input.kinds # inlay_hints.allowed_hint_kinds )
        => /\ event'.outcome = "break"
           /\ Len(event'.splice) = 1
           /\ event'.splice[1].to_remove
                 = {h.id : h \in {v \in visible : v.kind \notin event'.input.kinds}}
           /\ inlay_hints'.allowed_hint_kinds = event'.input.kinds
           /\ Spawned = {}
           /\ inlay_hints'.inlay_tasks = inlay_hints.inlay_tasks
      ]_vars

\* C14: an update_settings that takes the feature from enabled to disabled
\* adopts the new filter and leaves the registry empty in every case; it
\* returns the removal of exactly the visible hint ids when hints were
\* visible, and Break(None) when none were.
C14_SettingsDisableClears ==
    [][ ( /\ event'.reason = "update_settings"
          /\ inlay_hints.enabled
          /\ ~inlay_hints'.enabled )
        => /\ event'.outcome = "break"
           /\ inlay_hints'.allowed_hint_kinds = event'.input.kinds
           /\ Registered(inlay_hints'.inlay_tasks) = {}
           /\ \A i \in DOMAIN tasks' : tasks'[i].state # "pending"
           /\ visible # {} => event'.splice = <<Splice(VisibleIds, <<>>)>>
           /\ visible = {} => event'.splice = <<>>
      ]_vars

\* The results of update_settings on disabled -> enabled and on
\* disabled -> disabled, and what the enabled -> enabled call with an
\* identical filter keeps.
C15_Transitions ==
    /\ (~inlay_hints.enabled /\ inlay_hints'.enabled)
       => /\ inlay_hints'.allowed_hint_kinds = event'.input.kinds
          /\ ~inlay_hints'.modifiers_override
          /\ event'.outcome = "continue"
          /\ event'.splice = <<>>
    /\ (~inlay_hints.enabled /\ ~inlay_hints'.enabled)
       => /\ inlay_hints'.allowed_hint_kinds = event'.input.kinds
          /\ event'.outcome = "break"
          /\ event'.splice = <<>>
    /\ ( /\ inlay_hints.enabled /\ inlay_hints'.enabled
         /\ event'.input.kinds = inlay_hints.allowed_hint_kinds )
       => /\ event'.outcome = "break"
          /\ event'.splice = <<>>
          /\ inlay_hints'.allowed_hint_kinds = inlay_hints.allowed_hint_kinds
          /\ inlay_hints'.inlay_tasks = inlay_hints.inlay_tasks
          /\ tasks' = tasks

\* C15 (as stated): disabled -> enabled adopts the filter, leaves the
\* override cleared and returns Continue; disabled -> disabled adopts the
\* filter and returns Break(None); enabled -> enabled with an identical
\* filter returns Break(None) and changes neither enabled, override,
\* filter nor tasks.
C15_UpdateSettingsResults ==
    [][ event'.reason = "update_settings"
        => /\ C15_Transitions
           /\ ( /\ inlay_hints.enabled /\ inlay_hints'.enabled
                /\ event'.input.kinds = inlay_hints.allowed_hint_kinds )
              => inlay_hints'.modifiers_override = inlay_hints.modifiers_override
      ]_vars

\* C15 (amended): as stated, except that the enabled -> enabled call with
\* an identical filter keeps the override only when the configured enabled
\* value equals enabled_in_settings; when it differs the override is
\* cleared.
C15_UpdateSettingsResultsAmended ==
    [][ event'.reason = "update_settings"
        => /\ C15_Transitions
           /\ ( /\ inlay_hints.enabled /\ inlay_hints'.enabled
                /\ event'.input.kinds = inlay_hints.allowed_hint_kinds )
              => inlay_hints'.modifiers_override
                    = IF event'.input.enabled # inlay_hints.enabled_in_settings
                      THEN FALSE ELSE inlay_hints.modifiers_override
      ]_vars

C15_Witness ==
    /\ event.reason = "update_settings"
    /\ event.outcome = "break"
    /\ inlay_hints.enabled
    /\ inlay_hints.enabled_in_settings
    /\ ~inlay_hints.modifiers_override
    /\ event.input.kinds = inlay_hints.allowed_hint_kinds
    /\ Registered(inlay_hints.inlay_tasks) # {}

\* C16: no sequence of policy operations, refreshes and completions
\* reaches a panic: every operation returns normally.
C16_NeverPanics == event.outcome # "panic"

\* C17: a task that runs on a failed fetch (Err) hands nothing to
\* splice_inlays, leaves the visible hints and the recorded version as
\* they were, removes its own entry from the registry and spawns no new
\* fetch.  (A task that finds its excerpt gone ends the same way on Ok and
\* on Err, so its step is also the step of a failed fetch.)
C17_FailedFetchLeavesState ==
    [][ \A i \in DOMAIN tasks :
          ( /\ tasks[i].state = "pending"
            /\ tasks'[i].state \in {"failed", "orphaned"} )
          => /\ event'.splice = <<>>
             /\ visible' = visible
             /\ inlay_hints'.inlays_for_version = inlay_hints.inlays_for_version
             /\ i \notin Registered(inlay_hints'.inlay_tasks)
             /\ Spawned = {}
      ]_vars

\* The labels of the hints a reconciliation inserted, in splice order.
InsertedLabels(splice) ==
    [k \in 1..Len(splice.to_insert) |-> splice.to_insert[k].label]

\* C18: for the five records at one position with the labels move, (, &x,
\* ), ), the last two identical, the reconciliation inserts exactly those
\* five hints in server order.
C18_SamePlaceKept ==
    [][ \A i \in DOMAIN tasks :
          ( /\ tasks[i].state = "pending"
            /\ tasks'[i].state = "applied"
            /\ tasks'[i].answer = SamePlace )
          => /\ Len(event'.splice) = 1
             /\ InsertedLabels(event'.splice[1]) = <<"move", "(", "&x", ")", ")">>
      ]_vars

\* The records of a response, as raw hints, that a reconciliation inserted.
InsertedRecords(splice) ==
    [k \in 1..Len(splice.to_insert) |->
        Hint(splice.to_insert[k].pos, splice.to_insert[k].label,
             splice.to_insert[k].kind)]

\* C19: every hint a reconciliation inserts lies in the queried range,
\* both ends included, and the inserted hints are exactly the records of
\* the response (consecutive repeats collapsed) that lie in it, in order:
\* a record outside the range is dropped alone.
C19_RangeFilter ==
    [][ \A i \in DOMAIN tasks :
          ( tasks[i].state = "pending" /\ tasks'[i].state = "applied" )
          => /\ Len(event'.splice) = 1
             /\ \A k \in DOMAIN event'.splice[1].to_insert :
                   /\ event'.splice[1].to_insert[k].pos >= tasks[i].range[1]
                   /\ event'.splice[1].to_insert[k].pos <= tasks[i].range[2]
             /\ InsertedRecords(event'.splice[1])
                   = SelectSeq(Dedup(tasks'[i].answer),
                               LAMBDA h : /\ h.pos >= tasks[i].range[1]
                                          /\ h.pos <= tasks[i].range[2])
      ]_vars

C19_Witness ==
    /\ event.reason = "Completion"
    /\ event.outcome = "applied"
    /\ \E h \in SeqToSet(event.splice[1].to_insert) :
          h.pos = tasks[event.task].range[1]
    /\ \E h \in SeqToSet(event.splice[1].to_insert) :
          h.pos = tasks[event.task].range[2]
    /\ \E h \in SeqToSet(tasks[event.task].answer) :
          h.pos > tasks[event.task].range[2]

\* C20: after an ExcerptsRemoved refresh no visible hint belongs to a
\* removed excerpt and no task of a removed excerpt is left pending or
\* registered.
C20_ExcerptsRemovedCleans ==
    event.reason = "ExcerptsRemoved"
    => /\ \A h \in visible : h.excerpt \in excerpts
       /\ \A i \in DOMAIN tasks :
             tasks[i].excerpt \notin excerpts
             => /\ tasks[i].state # "pending"
                /\ i \notin Registered(inlay_hints.inlay_tasks)

\* C21: an ExcerptsRemoved refresh leaves the visible hints, the tasks and
\* the registry entries of every excerpt that stays in the view as they
\* were, leaves the recorded version as it was, and spawns no fetch.
C21_ExcerptsRemovedFrame ==
    [][ event'.reason = "ExcerptsRemoved"
        => /\ {h \in visible' : h.excerpt \in excerpts'}
                 = {h \in visible : h.excerpt \in excerpts'}
           /\ \A i \in DOMAIN tasks :
                 tasks[i].excerpt \in excerpts'
                 => /\ tasks'[i] = tasks[i]
                    /\ (i \in Registered(inlay_hints'.inlay_tasks))
                          = (i \in Registered(inlay_hints.inlay_tasks))
           /\ \A e \in excerpts' :
                 inlay_hints'.inlay_tasks[BufferOf[e]]
                    = inlay_hints.inlay_tasks[BufferOf[e]]
           /\ inlay_hints'.inlays_for_version = inlay_hints.inlays_for_version
           /\ Spawned = {}
      ]_vars

C21_Witness ==
    /\ event.reason = "ExcerptsRemoved"
    /\ excerpts # {}
    /\ \E h \in visible : h.excerpt \in excerpts
    /\ inlay_hints.inlays_for_version # {}
    /\ \E i \in Registered(inlay_hints.inlay_tasks) : tasks[i].state = "pending"

\* C22: in a view whose documents are not edited, the reconciliation of a
\* NewLinesShown fetch removes nothing: its removal set is empty and every
\* hint that was visible before it, of any region and any document, is
\* still visible after it.
C22_ScrollAdditive ==
    [][ \A i \in DOMAIN tasks :
          ( /\ tasks[i].state = "pending"
            /\ tasks'[i].state = "applied"
            /\ tasks[i].reason = "NewLinesShown"
            /\ tasks[i].version = version[tasks[i].buffer] )
          => /\ Len(event'.splice) = 1
             /\ event'.splice[1].to_remove = {}
             /\ visible \subseteq visible'
      ]_vars

\* Two hint inlays that show the same hint at the same place.
SameHint(a, b) ==
    a.excerpt = b.excerpt /\ a.pos = b.pos /\ a.label = b.label /\ a.kind = b.kind

\* C23: a NewLinesShown refresh spawns no fetch for a region whose hints
\* were already fetched and reconciled at the document's current version,
\* and no hint is ever visible twice.
C23_ReshowNoRefetch ==
    [][ /\ \A e \in excerpts :
              ( /\ event'.reason = "NewLinesShown"
                /\ \E j \in DOMAIN tasks :
                      /\ tasks[j].excerpt = e
                      /\ tasks[j].range = range'[e]
                      /\ tasks[j].version = version[BufferOf[e]]
                      /\ tasks[j].state = "applied" )
              => \A i \in Spawned : tasks'[i].excerpt # e
        /\ \A a, b \in visible' : SameHint(a, b) => a = b
      ]_vars

\* C24: a ModifiersChanged(b) refresh with b equal to the override flag
\* returns without changing any state (modifiers_override gave None);
\* otherwise the flag becomes b and nothing else of the policy changes, and
\* exactly when enabled XOR b is false the registry is emptied, no fetch is
\* left to run and the refresh takes the removal-only path (Some(false));
\* in the remaining case it takes the fetch path (Some(true)) and no task
\* is dropped other than by a new fetch of its own key.
C24_ModifiersOverride ==
    [][ event'.reason = "ModifiersChanged"
        => LET b == event'.input.enabled
               d == inlay_hints
           IN  IF b = d.modifiers_override
               THEN /\ event'.outcome = "return"
                    /\ inlay_hints' = d
                    /\ tasks' = tasks
                    /\ visible' = visible
               ELSE /\ inlay_hints'.modifiers_override = b
                    /\ inlay_hints'.enabled = d.enabled
                    /\ inlay_hints'.enabled_in_settings = d.enabled_in_settings
                    /\ inlay_hints'.allowed_hint_kinds = d.allowed_hint_kinds
                    /\ inlay_hints'.inlays_for_version = d.inlays_for_version
                    /\ IF d.enabled = b
                       THEN /\ event'.outcome = "removed"
                            /\ Registered(inlay_hints'.inlay_tasks) = {}
                            /\ \A i \in DOMAIN tasks' : tasks'[i].state # "pending"
                            /\ Spawned = {}
                       ELSE /\ event'.outcome = "fetch"
                            /\ \A i \in DOMAIN tasks :
                                  tasks'[i] # tasks[i]
                                  => /\ tasks[i].state = "pending"
                                     /\ tasks'[i].state = "superseded"
                                     /\ \E j \in Spawned : SameKey(tasks'[j], tasks[i])
      ]_vars

C24_Witness ==
    /\ event.reason = "ModifiersChanged"
    /\ event.outcome = "removed"
    /\ inlay_hints.enabled
    /\ inlay_hints.modifiers_override
    /\ \E i \in DOMAIN tasks : tasks[i].state = "cleared"

\* What a Toggle(e) refresh does apart from the modifier override: toggle
\* returned true (the refresh did not just return) exactly when enabled
\* differed from e, enabled equals e afterwards, and a call that disables
\* the feature leaves the registry empty and no fetch to run.
C25_ToggleResult ==
    LET e == event'.input.enabled
    IN  /\ (event'.outcome # "return") = (inlay_hints.enabled # e)
        /\ inlay_hints'.enabled = e
        /\ (inlay_hints.enabled /\ ~e)
           => /\ Registered(inlay_hints'.inlay_tasks) = {}
              /\ \A i \in DOMAIN tasks' : tasks'[i].state # "pending"

\* C25 (as stated): toggle(e) returns true exactly when enabled differed
\* from e; after every call enabled equals e and the modifier override is
\* false; a call that disables the feature clears all in-flight tasks.
C25_Toggle ==
    [][ event'.reason = "Toggle"
        => /\ C25_ToggleResult
           /\ ~inlay_hints'.modifiers_override
      ]_vars

\* C25 (amended): as stated, except that the modifier override is false
\* after a call that changed enabled, and a call with enabled already equal
\* to e changes nothing, the modifier override included.
C25_ToggleAmended ==
    [][ event'.reason = "Toggle"
        => /\ C25_ToggleResult
           /\ IF inlay_hints.enabled # event'.input.enabled
              THEN ~inlay_hints'.modifiers_override
              ELSE inlay_hints' = inlay_hints /\ tasks' = tasks /\ visible' = visible
      ]_vars

C25_Witness ==
    /\ event.reason = "Toggle"
    /\ ~event.input.enabled
    /\ event.outcome = "removed"
    /\ ~inlay_hints.enabled
    /\ ~inlay_hints.modifiers_override
    /\ \E i \in DOMAIN tasks : tasks[i].state = "cleared"

\* C26: a step leaves enabled different from enabled_in_settings only if
\* it is a toggle or the two fields differed before it and it wrote
\* neither; a ModifiersChanged refresh writes neither field; an
\* update_settings whose enabled value differs from enabled_in_settings
\* sets both fields to that value and clears the modifier override, and no
\* other operation writes enabled_in_settings.
C26_EnabledDivergence ==
    [][ /\ (inlay_hints'.enabled # inlay_hints'.enabled_in_settings)
           => \/ event'.reason = "Toggle"
              \/ /\ inlay_hints.enabled # inlay_hints.enabled_in_settings
                 /\ inlay_hints'.enabled = inlay_hints.enabled
                 /\ inlay_hints'.enabled_in_settings = inlay_hints.enabled_in_settings
        /\ event'.reason = "ModifiersChanged"
           => inlay_hints'.enabled = inlay_hints.enabled
        /\ event'.reason # "update_settings"
           => inlay_hints'.enabled_in_settings = inlay_hints.enabled_in_settings
        /\ ( /\ event'.reason = "update_settings"
             /\ event'.input.enabled # inlay_hints.enabled_in_settings )
           => /\ inlay_hints'.enabled = event'.input.enabled
              /\ inlay_hints'.enabled_in_settings = event'.input.enabled
              /\ ~inlay_hints'.modifiers_override
      ]_vars

C26_Witness ==
    /\ event.reason = "ModifiersChanged"
    /\ event.outcome # "return"
    /\ inlay_hints.modifiers_override
    /\ inlay_hints.enabled # inlay_hints.enabled_in_settings

\* C27: a task that is no longer the registered task of its key, replaced
\* by a newer fetch or dropped by clear(), never acts: its record never
\* changes again, every task that runs is the pending task the registry
\* holds under its own key, a registry entry disappears only by the run of
\* its own task or by a handler that drops it (an entry a run left behind
\* included), and only the run of a registered task or a removal-only
\* refresh changes the visible hints or the recorded version.
C27_DroppedTaskInert ==
    [][ /\ \A i \in DOMAIN tasks :
              tasks[i].state \in {"superseded", "cleared"} => tasks'[i] = tasks[i]
        /\ event'.reason = "Completion"
           => LET i == event'.task
              IN  /\ i \in DOMAIN tasks
                  /\ tasks[i].state = "pending"
                  /\ tasks[i].range \in DOMAIN inlay_hints.inlay_tasks[tasks[i].buffer]
                  /\ inlay_hints.inlay_tasks[tasks[i].buffer][tasks[i].range] = i
        /\ \A j \in Registered(inlay_hints.inlay_tasks)
                       \ Registered(inlay_hints'.inlay_tasks) :
              \/ event'.reason = "Completion" /\ event'.task = j
              \/ /\ event'.reason # "Completion"
                 /\ tasks'[j].state \in {"superseded", "cleared", "orphaned"}
        /\ ( \/ visible' # visible
             \/ inlay_hints'.inlays_for_version # inlay_hints.inlays_for_version )
           => \/ event'.reason = "Completion" /\ event'.outcome = "applied"
              \/ event'.reason # "Completion" /\ event'.outcome = "removed"
      ]_vars

C27_Witness ==
    /\ event.reason = "Completion"
    /\ event.outcome = "applied"
    /\ \E i \in DOMAIN tasks :
          /\ i < event.task
          /\ SameKey(tasks[i], tasks[event.task])
          /\ tasks[i].state = "superseded"

\* C28: a task that has run, whether its response was reconciled, was
\* discarded by the race guard, was a failure or came for an excerpt that
\* left the view, has no entry in the registry.
C28_CompletionDeregisters ==
    \A i \in DOMAIN tasks :
        tasks[i].state \in {"applied", "discarded", "failed", "orphaned"}
        => i \notin Registered(inlay_hints.inlay_tasks)

\* C29: if from some point on the only steps are runs of answered tasks
\* (the triggers have stopped), then eventually the registry is empty for
\* every buffer and stays empty.
C29_RegistryDrains ==
    <>[][Completes]_vars => <>[](Registered(inlay_hints.inlay_tasks) = {})

C31_VersionWrittenByDiff ==
    [][ /\ IF event'.reason = "Completion" /\ event'.outcome = "applied"
           THEN inlay_hints'.inlays_for_version = {tasks[event'.task].version}
           ELSE inlay_hints'.inlays_for_version = inlay_hints.inlays_for_version
        /\ Clear(inlay_hints).inlays_for_version = inlay_hints.inlays_for_version
        /\ \A b \in BOOLEAN :
              /\ Toggle(inlay_hints, b).data.inlays_for_version
                    = inlay_hints.inlays_for_version
              /\ ModifiersOverride(inlay_hints, b).data.inlays_for_version
                    = inlay_hints.inlays_for_version
        /\ \A s \in UpdateInputs :
              UpdateSettings(inlay_hints, s, visible).data.inlays_for_version
                 = inlay_hints.inlays_for_version
      ]_vars

C31_Witness ==
    /\ event.reason = "Completion"
    /\ event.outcome = "applied"
    /\ tasks[event.task].version > 0
    /\ inlay_hints.inlays_for_version = {tasks[event.task].version}
    /\ \E b \in Buffers : version[b] # tasks[event.task].version
    /\ \E i \in DOMAIN tasks : tasks[i].state = "discarded"

\* C32: the step of a task whose response is reconciled hands exactly one
\* (remove, insert) pair to splice_inlays, and in that same step the
\* visible hints become the old ones without the removed ids plus the
\* inserted hints, the recorded version is written and the task's entry
\* leaves the registry; the step of a task that computes no diff hands
\* nothing to splice_inlays and leaves the visible hints as they were.
C32_OneSplicePerDiff ==
    [][ event'.reason = "Completion"
        => LET i == event'.task
           IN  IF event'.outcome = "applied"
               THEN /\ Len(event'.splice) = 1
                    /\ visible' = {h \in visible : h.id \notin event'.splice[1].to_remove}
                                     \cup {event'.splice[1].to_insert[k] :
                                              k \in DOMAIN event'.splice[1].to_insert}
                    /\ inlay_hints'.inlays_for_version = {tasks[i].version}
                    /\ i \in Registered(inlay_hints.inlay_tasks)
                    /\ i \notin Registered(inlay_hints'.inlay_tasks)
                    /\ tasks'[i].state = "applied"
               ELSE /\ event'.splice = <<>>
                    /\ visible' = visible
                    /\ next_inlay_id' = next_inlay_id
      ]_vars

C32_Witness ==
    /\ event.reason = "Completion"
    /\ event.outcome = "applied"
    /\ event.splice[1].to_remove # {}
    /\ event.splice[1].to_insert # <<>>
    /\ event.task \notin Registered(inlay_hints.inlay_tasks)
    /\ \E j \in Registered(inlay_hints.inlay_tasks) : tasks[j].state = "pending"

\* The records of a response that start a run of equal records, in order.
RunHeads(resp) ==
    LET heads == SelectSeq([k \in 1..Len(resp) |-> k],
                           LAMBDA k : k = 1 \/ resp[k] # resp[k - 1])
    IN  [j \in 1..Len(heads) |-> resp[heads[j]]]

Strategies == {"None", "BufferEdited", "RefreshRequested"}

\* C34: a fetch spawned by NewLinesShown carries strategy None, one
\* spawned by BufferEdited strategy BufferEdited, one spawned by
\* RefreshRequested strategy RefreshRequested; the debounce bypass flag is
\* false for a NewLinesShown and a BufferEdited refresh and true for a
\* RefreshRequested refresh; should_invalidate is true exactly for
\* RefreshRequested and BufferEdited.
C34_Classifier ==
    /\ \A i \in DOMAIN tasks :
          /\ tasks[i].reason = "NewLinesShown" => tasks[i].strategy = "None"
          /\ tasks[i].reason = "BufferEdited" => tasks[i].strategy = "BufferEdited"
          /\ tasks[i].reason = "RefreshRequested"
             => tasks[i].strategy = "RefreshRequested"
    /\ event.reason \in {"NewLinesShown", "BufferEdited"}
       => ~IgnoreDebounce(event.reason)
    /\ event.reason = "RefreshRequested" => IgnoreDebounce(event.reason)
    /\ \A st \in Strategies :
          ShouldInvalidate(st) = (st \in {"RefreshRequested", "BufferEdited"})

C36_EveryRegionFetched ==
    [][ event'.outcome = "fetch"
        => \A e \in excerpts :
              BufferOf[e] \notin event'.input.declined
              => \E i \in Spawned :
                    /\ tasks'[i].excerpt = e
                    /\ tasks'[i].range = range'[e]
                    /\ tasks'[i].state = "pending"
                    /\ range'[e] \in DOMAIN inlay_hints'.inlay_tasks[BufferOf[e]]
                    /\ inlay_hints'.inlay_tasks[BufferOf[e]][range'[e]] = i
      ]_vars

\* C37: an update_settings call whose enabled value equals
\* enabled_in_settings changes neither enabled nor the modifier override
\* nor enabled_in_settings, so an enabled that a toggle made differ from
\* the settings stays as the toggle left it.
C37_UnrelatedSettingsKeepToggle ==
    [][ (/\ event'.reason = "update_settings"
         /\ event'.input.enabled = inlay_hints.enabled_in_settings)
        => /\ inlay_hints'.enabled = inlay_hints.enabled
           /\ inlay_hints'.modifiers_override = inlay_hints.modifiers_override
           /\ inlay_hints'.enabled_in_settings = inlay_hints.enabled_in_settings
      ]_vars

\* update_settings has returned from a call with the settings' own enabled
\* value and a new kind filter while a toggle keeps enabled apart from the
\* settings.
C37_Witness ==
    /\ event.reason = "update_settings"
    /\ event.outcome = "break"
    /\ event.input.enabled = inlay_hints.enabled_in_settings
    /\ event.input.kinds = {"Parameter"}
    /\ inlay_hints.allowed_hint_kinds = {"Parameter"}
    /\ inlay_hints.enabled # inlay_hints.enabled_in_settings

\* C38: the recorded version never moves backwards: once a version is
\* recorded, every step leaves a recorded version that is the same or
\* newer, whatever handler or completion the step is.
C38_RecordedVersionMonotone ==
    [][ \A old \in inlay_hints.inlays_for_version :
          /\ inlay_hints'.inlays_for_version # {}
          /\ \A new \in inlay_hints'.inlays_for_version :
                ~ChangedSince(old, new)
      ]_vars

\* A response for a newer version has replaced an older recorded version
\* while a task fetched at the older version is still pending.
C38_Witness ==
    /\ event.reason = "Completion"
    /\ event.outcome = "applied"
    /\ inlay_hints.inlays_for_version = {tasks[event.task].version}
    /\ \E j \in DOMAIN tasks :
          /\ tasks[j].state = "applied"
          /\ j # event.task
          /\ tasks[j].version < tasks[event.task].version
    /\ \E k \in DOMAIN tasks :
          /\ tasks[k].state = "pending"
          /\ tasks[k].version < tasks[event.task].version

C40_FreshIds ==
    [][ /\ IF event'.reason = "Completion" /\ event'.outcome = "applied"
           THEN LET ins == event'.splice[1].to_insert
                    t == tasks'[event'.task]
                IN  /\ \A k \in DOMAIN ins : ins[k].id = next_inlay_id + k - 1
                    /\ next_inlay_id' = next_inlay_id + Len(ins)
                    /\ Len(ins) = Len(SelectSeq(Dedup(t.answer),
                                                LAMBDA h : InRange(h, t.range)))
           ELSE next_inlay_id' = next_inlay_id
        /\ \A i \in DOMAIN tasks, resp \in Responses :
              tasks[i].excerpt \notin excerpts
              => HintsToInsert(resp, i, tasks[i], next_inlay_id) = <<>>
        /\ \A h \in visible' : h.id < next_inlay_id'
        /\ \A h1, h2 \in visible' : h1.id = h2.id => h1 = h2
      ]_vars

\* A second reconciliation has removed earlier hints and inserted its own
\* after dropping a record that lay before the queried range.
C40_Witness ==
    /\ event.reason = "Completion"
    /\ event.outcome = "applied"
    /\ event.splice[1].to_remove # {}
    /\ event.splice[1].to_insert # <<>>
    /\ next_inlay_id > Len(event.splice[1].to_insert)
    /\ LET t == tasks[event.task]
       IN  /\ ~InRange(Head(t.answer), t.range)
           /\ \E k \in DOMAIN t.answer : InRange(t.answer[k], t.range)

====
